---- MODULE Spec2Model ----
(***************************************************************************)
(* Model of cat_dog_classifier/jupyter_notebooks/model_training.ipynb:     *)
(* the train/validation split, the batch producer (CustomDataLoader), the  *)
(* train() and test() functions, the epoch loop and the final test cell.   *)
(*                                                                         *)
(* Samples are identified by their index in the collection they come from. *)
(* The network, the loss and the optimizer are library code: they are      *)
(* modelled as deterministic integer functions of the parameters and the   *)
(* batch (Predict, loss_fn, Gradient, SgdStep), which keeps what the       *)
(* notebook's own code does with them (order, accumulation, division).     *)
(***************************************************************************)
EXTENDS Integers, Sequences, FiniteSets, TLC

\* ---------------------------------------------------------------- bounds
\* len(training_set) ranges over 1..MaxN
MaxN == 3
\* len(test_set)
TestN == 3
\* batch_size ranges over 1..MaxBatch (64 in the notebook)
MaxBatch == 2
\* number of epochs of the loop (20 in the notebook)
epochs == 2
\* largest len(training_set) of the long training passes (SpecLong)
LongN == 128

\* train() converts the loss with .item() at batch indices that are positive
\* multiples of this number
LogEvery == 100

VARIABLES
    N,              \* len(training_set)
    batch_size,     \* params["batch_size"]
    train_dataset,  \* Subset.indices of the training partition (a sequence)
    val_dataset,    \* Subset.indices of the validation partition
    pc,             \* position of the notebook's control
    status,         \* "running", "raised" (an exception propagated),
                    \* "cancelled" (interrupted by hand), "done"
    t,              \* epoch index of the for loop
    loader,         \* the dataloader being iterated: "train", "val", "test"
    order,          \* the sampler's permutation for the current pass
    pos,            \* samples of order already handed out
    batch,          \* enumerate()'s batch index in the current pass
    X,              \* the current batch (sequence of sample indices)
    pred,           \* model(X): predicted class per sample of X
    loss,           \* train()'s local loss
    grad,           \* the parameters' .grad buffer
    params,         \* the model parameters
    mode,           \* "train" or "eval" (model.training)
    grad_enabled,   \* FALSE inside torch.no_grad()
    test_loss,      \* test()'s accumulators
    correct,
    ret,            \* the value test() returned last
    writer,         \* SummaryWriter: tag -> sequence of [value, step]
    seen,           \* history: the batches handed out in the current pass
    events,         \* history: pass starts and ends, in order
    evals,          \* history: one record per completed test() call
    n_updates,      \* history: optimizer steps taken
    n_raised,       \* history: exceptions raised
    stdout,         \* what the cells have printed, in order
    model_file      \* the saved-weights file: "absent" until it is written

vars == <<N, batch_size, train_dataset, val_dataset, pc, status, t, loader,
          order, pos, batch, X, pred, loss, grad, params, mode, grad_enabled,
          test_loss, correct, ret, writer, seen, events, evals, n_updates,
          n_raised, stdout, model_file>>

\* ------------------------------------------------------------- helpers
Min(a, b) == IF a < b THEN a ELSE b

CeilDiv(a, b) == (a + b - 1) \div b

Range(s) == {s[i] : i \in 1..Len(s)}

RECURSIVE Flatten(_)
Flatten(ss) == IF ss = <<>> THEN <<>> ELSE Head(ss) \o Flatten(Tail(ss))

\* an exact quotient n/d, kept as the pair (Python's true division)
Rat(n, d) == <<n, d>>

RatEq(a, b) == a[1] * b[2] = b[1] * a[2]

\* ------------------------------------------------------ the partitioner
\* int(0.8 * n): the double 0.8 * n truncated toward zero. 0.8 is stored
\* slightly above 4/5, so the product never falls below an integer 4n/5 and
\* the truncation is the integer quotient.
train_size_round(n) == (8 * n + 5) \div 10

train_size(n) == (8 * n) \div 10

val_size(n) == n - train_size(n)

\* torch.randperm(n): every ordering of the indices 0..n-1
RandPerms(n) == {[i \in 1..n |-> f[i] - 1] : f \in Permutations(1..n)}

\* random_split(dataset, [a, b]): consecutive slices of one permutation
SplitOverlap(perm, a, b) == <<SubSeq(perm, 1, a), SubSeq(perm, 1, b)>>

Split(perm, a, b) == <<SubSeq(perm, 1, a), SubSeq(perm, a + 1, a + b)>>

\* ------------------------------------------------- the data and the network
\* ImageFolder: class index = rank of the class directory, samples listed
\* class by class; in a collection of n samples the first half is class 0
Label(n, i) == IF 2 * i < n THEN 0 ELSE 1

\* len() of the collection a loader's dataset is drawn from
SourceLen(l) == IF l = "test" THEN TestN ELSE N

\* the labels y of a batch b of loader l
Labels(l, b) == [i \in 1..Len(b) |-> Label(SourceLen(l), b[i])]

\* model(X).argmax(1): the class the network with parameters p gives sample i
Predict(p, i) == (p + i) % 2

Forward(p, b) == [i \in 1..Len(b) |-> Predict(p, b[i])]

\* samples of a batch predicted wrongly / correctly
Wrong(pr, y) == Cardinality({i \in 1..Len(pr) : pr[i] # y[i]})

Hits(pr, y) == Cardinality({i \in 1..Len(pr) : pr[i] = y[i]})

\* CrossEntropyLoss()(pred, y): a scalar that grows with the wrong predictions
loss_fn(pr, y) == 1 + Wrong(pr, y)

\* what loss.backward() adds to .grad: zero on a perfectly classified batch
Gradient(pr, y) == Wrong(pr, y)

\* optimizer.step(): the parameters move by the gradient held in .grad
SgdStep(p, g) == p + g

\* values of train()'s loss variable: the int 0, a tensor, or a float
IntVal(v) == [kind |-> "int", v |-> v]

Tensor(v) == [kind |-> "tensor", v |-> v]

\* tensor.item(): the Python number held by a one-element tensor
Item(x) == [kind |-> "float", v |-> x.v]

\* initial parameters of resnet18(): not fixed by the notebook
InitParams == {0, 1}

\* ------------------------------------------------------ the batch producer
\* the dataset behind each loader, as the sequence of its sample indices
Partition(l) ==
    CASE l = "train" -> train_dataset
      [] l = "val" -> val_dataset
      [] OTHER -> [i \in 1..TestN |-> i - 1]

\* shuffle=True: RandomSampler draws a new permutation of the dataset on
\* every __iter__
ShufflesWithReplacement(p) == {[i \in 1..Len(p) |-> p[f[i]]] : f \in [1..Len(p) -> 1..Len(p)]}

Shuffles(p) == {[i \in 1..Len(p) |-> p[f[i]]] : f \in Permutations(1..Len(p))}

\* BatchSampler with drop_last=False: a batch is due while samples remain
HasNextDropLast(o, k, B) == k + B <= Len(o)

HasNext(o, k, B) == k < Len(o)

\* the next batch: up to B consecutive samples of the permutation
NextBatch(o, k, B) == SubSeq(o, k + 1, Min(k + B, Len(o)))

\* len(dataloader)
NumBatches(l, B) == CeilDiv(Len(Partition(l)), B)

\* ------------------------------------------------------------ the writer
\* SummaryWriter.add_scalar(tag, value, step): one more point of series tag
add_scalar(w, tag, value, step) ==
    [w EXCEPT ![tag] = Append(@, [value |-> value, step |-> step])]

\* ------------------------------------------------------------ the output
\* print(f"..."): one printed line, its text and the numbers formatted into it
Line(text, vals) == [text |-> text, vals |-> vals]

\* ------------------------------------------------------------------ Init
Init ==
    /\ N \in 1..MaxN
    /\ batch_size \in 1..MaxBatch
    /\ params \in InitParams
    /\ train_dataset = <<>>
    /\ val_dataset = <<>>
    /\ pc = "split"
    /\ status = "running"
    /\ t = 0
    /\ loader = "none"
    /\ order = <<>>
    /\ pos = 0
    /\ batch = 0
    /\ X = <<>>
    /\ pred = <<>>
    /\ loss = IntVal(0)
    /\ grad = 0
    /\ mode = "train"
    /\ grad_enabled = TRUE
    /\ test_loss = 0
    /\ correct = 0
    /\ ret = <<>>
    /\ writer = [tag \in {"train/loss", "validation/loss", "validation/accuracy"} |-> <<>>]
    /\ seen = <<>>
    /\ events = <<>>
    /\ evals = <<>>
    /\ n_updates = 0
    /\ n_raised = 0
    /\ stdout = <<>>
    /\ model_file = "absent"

\* ------------------------------------------------ cell 1: the partitioner
\* train_size, val_size and random_split(training_set, [train_size, val_size])
random_split ==
    /\ pc = "split" /\ status = "running"
    /\ \E perm \in RandPerms(N) :
         /\ train_dataset' = Split(perm, train_size(N), val_size(N))[1]
         /\ val_dataset' = Split(perm, train_size(N), val_size(N))[2]
    /\ pc' = "loaders"
    /\ UNCHANGED <<N, batch_size, status, t, loader, order, pos, batch, X, pred,
                   loss, grad, params, mode, grad_enabled, test_loss, correct,
                   ret, writer, seen, events, evals, n_updates, n_raised,
                   stdout, model_file>>

\* ------------------------------------------------ cell 2: the data loaders
\* CustomDataLoader(dataset, batch_size=.., shuffle=True) for the three
\* datasets. Whether the sampler accepts an empty dataset depends on the
\* library version: both outcomes are possible.
CreateLoaders ==
    /\ pc = "loaders" /\ status = "running"
    /\ pc' = "loop"
    /\ stdout' = Append(stdout, Line("Using device", <<>>))
    /\ UNCHANGED <<N, batch_size, train_dataset, val_dataset, status, t, loader,
                   order, pos, batch, X, pred, loss, grad, params, mode,
                   grad_enabled, test_loss, correct, ret, writer, seen, events,
                   evals, n_updates, n_raised,
                   model_file>>

CreateLoadersRaises ==
    /\ pc = "loaders" /\ status = "running"
    /\ \E l \in {"train", "val", "test"} : Len(Partition(l)) = 0
    /\ status' = "raised"
    /\ n_raised' = n_raised + 1
    /\ stdout' = Append(stdout, Line("Using device", <<>>))
    /\ UNCHANGED <<N, batch_size, train_dataset, val_dataset, pc, t, loader,
                   order, pos, batch, X, pred, loss, grad, params, mode,
                   grad_enabled, test_loss, correct, ret, writer, seen, events,
                   evals, n_updates,
                   model_file>>

\* --------------------------------------------------------------- train()
\* (model.train() left out: the mode stays what the last pass set)
train_begin_keeps_mode ==
    /\ pc = "loop" /\ status = "running"
    /\ t < epochs
    /\ loader' = "train"
    /\ loss' = IntVal(0)
    /\ order' \in Shuffles(train_dataset)
    /\ pos' = 0
    /\ batch' = 0
    /\ seen' = <<>>
    /\ events' = Append(events, <<"start", "train", t>>)
    /\ pc' = "t_next"
    /\ stdout' = Append(stdout, Line("Epoch", <<Rat(t + 1, 1)>>))
    /\ UNCHANGED <<N, batch_size, train_dataset, val_dataset, status, t, X, pred,
                   grad, params, mode, grad_enabled, test_loss, correct, ret,
                   writer, evals, n_updates, n_raised, model_file>>

\* for t in range(epochs): ... train(train_loader, ...): loss = 0,
\* model.train(), and the loader's iterator draws its permutation
train_begin ==
    /\ pc = "loop" /\ status = "running"
    /\ t < epochs
    /\ loader' = "train"
    /\ loss' = IntVal(0)
    /\ mode' = "train"
    /\ order' \in Shuffles(train_dataset)
    /\ pos' = 0
    /\ batch' = 0
    /\ seen' = <<>>
    /\ events' = Append(events, <<"start", "train", t>>)
    /\ pc' = "t_next"
    /\ stdout' = Append(stdout, Line("Epoch", <<Rat(t + 1, 1)>>))
    /\ UNCHANGED <<N, batch_size, train_dataset, val_dataset, status, t, X, pred,
                   grad, params, grad_enabled, test_loss, correct, ret, writer,
                   evals, n_updates, n_raised,
                   model_file>>

\* for batch, (X, y) in enumerate(dataloader): the next batch
train_next_batch ==
    /\ pc = "t_next" /\ status = "running"
    /\ HasNext(order, pos, batch_size)
    /\ X' = NextBatch(order, pos, batch_size)
    /\ pos' = pos + Len(X')
    /\ batch' = Len(seen)
    /\ seen' = Append(seen, X')
    /\ pc' = "t_fwd"
    /\ UNCHANGED <<N, batch_size, train_dataset, val_dataset, status, t, loader,
                   order, pred, loss, grad, params, mode, grad_enabled,
                   test_loss, correct, ret, writer, events, evals, n_updates,
                   n_raised,
                   stdout, model_file>>

\* pred = model(X)
train_forward ==
    /\ pc = "t_fwd" /\ status = "running"
    /\ pred' = Forward(params, X)
    /\ pc' = "t_loss"
    /\ UNCHANGED <<N, batch_size, train_dataset, val_dataset, status, t, loader,
                   order, pos, batch, X, loss, grad, params, mode, grad_enabled,
                   test_loss, correct, ret, writer, seen, events, evals,
                   n_updates, n_raised,
                   stdout, model_file>>

\* loss = loss_fn(pred, y)
train_loss ==
    /\ pc = "t_loss" /\ status = "running"
    /\ loss' = Tensor(loss_fn(pred, Labels(loader, X)))
    /\ pc' = "t_bwd"
    /\ UNCHANGED <<N, batch_size, train_dataset, val_dataset, status, t, loader,
                   order, pos, batch, X, pred, grad, params, mode, grad_enabled,
                   test_loss, correct, ret, writer, seen, events, evals,
                   n_updates, n_raised,
                   stdout, model_file>>

\* loss.backward(): gradients are added to .grad
train_backward ==
    /\ pc = "t_bwd" /\ status = "running"
    /\ grad' = grad + Gradient(pred, Labels(loader, X))
    /\ pc' = "t_step"
    /\ UNCHANGED <<N, batch_size, train_dataset, val_dataset, status, t, loader,
                   order, pos, batch, X, pred, loss, params, mode, grad_enabled,
                   test_loss, correct, ret, writer, seen, events, evals,
                   n_updates, n_raised,
                   stdout, model_file>>

\* optimizer.step()
train_step ==
    /\ pc = "t_step" /\ status = "running"
    /\ params' = SgdStep(params, grad)
    /\ n_updates' = n_updates + 1
    /\ pc' = "t_zero"
    /\ UNCHANGED <<N, batch_size, train_dataset, val_dataset, status, t, loader,
                   order, pos, batch, X, pred, loss, grad, mode, grad_enabled,
                   test_loss, correct, ret, writer, seen, events, evals,
                   n_raised,
                   stdout, model_file>>

\* (the training loss logged batch by batch, inside train())
train_zero_grad_logging ==
    /\ pc = "t_zero" /\ status = "running"
    /\ grad' = 0
    /\ loss' = IF batch % LogEvery = 0 /\ batch > 0 THEN Item(loss) ELSE loss
    /\ writer' = add_scalar(writer, "train/loss", loss', t)
    /\ pc' = "t_next"
    /\ UNCHANGED <<N, batch_size, train_dataset, val_dataset, status, t, loader,
                   order, pos, batch, X, pred, params, mode, grad_enabled,
                   test_loss, correct, ret, seen, events, evals,
                   n_updates, n_raised, stdout, model_file>>

\* (optimizer.zero_grad() left out: the gradients of the batches add up)
train_zero_grad_missing ==
    /\ pc = "t_zero" /\ status = "running"
    /\ loss' = IF batch % LogEvery = 0 /\ batch > 0 THEN Item(loss) ELSE loss
    /\ pc' = "t_next"
    /\ UNCHANGED <<N, batch_size, train_dataset, val_dataset, status, t, loader,
                   order, pos, batch, X, pred, grad, params, mode, grad_enabled,
                   test_loss, correct, ret, writer, seen, events, evals,
                   n_updates, n_raised, stdout, model_file>>

\* (the two targets of the tuple assignment swapped: loss takes the sample
\* count)
train_zero_grad_swapped ==
    /\ pc = "t_zero" /\ status = "running"
    /\ grad' = 0
    /\ loss' = IF batch % LogEvery = 0 /\ batch > 0
               THEN [kind |-> "int", v |-> (batch + 1) * Len(X)] ELSE loss
    /\ pc' = "t_next"
    /\ UNCHANGED <<N, batch_size, train_dataset, val_dataset, status, t, loader,
                   order, pos, batch, X, pred, params, mode, grad_enabled,
                   test_loss, correct, ret, writer, seen, events, evals,
                   n_updates, n_raised, stdout, model_file>>

\* optimizer.zero_grad(), then the conversion every LogEvery batches
train_zero_grad ==
    /\ pc = "t_zero" /\ status = "running"
    /\ grad' = 0
    /\ loss' = IF batch % LogEvery = 0 /\ batch > 0 THEN Item(loss) ELSE loss
    /\ pc' = "t_next"
    /\ UNCHANGED <<N, batch_size, train_dataset, val_dataset, status, t, loader,
                   order, pos, batch, X, pred, params, mode, grad_enabled,
                   test_loss, correct, ret, writer, seen, events, evals,
                   n_updates, n_raised,
                   stdout, model_file>>

\* the loop's step after train(): writer.add_scalar("train/loss", loss_train, t)
LogTrainNextStep(w, v, e) == add_scalar(w, "train/loss", v, e + 1)

LogTrain(w, v, e) == add_scalar(w, "train/loss", v, e)

\* (train() returns and the loop goes on to the next epoch at once)
train_return_skips_validation ==
    /\ pc = "t_next" /\ status = "running"
    /\ ~HasNext(order, pos, batch_size)
    /\ writer' = LogTrain(writer, loss, t)
    /\ events' = Append(events, <<"end", "train", t>>)
    /\ t' = t + 1
    /\ pc' = "loop"
    /\ UNCHANGED <<N, batch_size, train_dataset, val_dataset, status, loader,
                   order, pos, batch, X, pred, loss, grad, params, mode,
                   grad_enabled, test_loss, correct, ret, seen, evals,
                   n_updates, n_raised,
                   stdout, model_file>>

\* the iterator is exhausted: return loss, and the loop logs it
train_return ==
    /\ pc = "t_next" /\ status = "running"
    /\ ~HasNext(order, pos, batch_size)
    /\ writer' = LogTrain(writer, loss, t)
    /\ events' = Append(events, <<"end", "train", t>>)
    /\ pc' = "validate"
    /\ UNCHANGED <<N, batch_size, train_dataset, val_dataset, status, t, loader,
                   order, pos, batch, X, pred, loss, grad, params, mode,
                   grad_enabled, test_loss, correct, ret, seen, evals,
                   n_updates, n_raised,
                   stdout, model_file>>

\* ---------------------------------------------------------------- test()
\* test(val_loader, ...) in the loop, test(test_loader, ...) in the last
\* cell: model.eval(), size, num_batches, test_loss, correct = 0, 0, then
\* torch.no_grad() is entered and the iterator draws its permutation
test_begin_carry ==
    /\ pc \in {"validate", "cell5"} /\ status = "running"
    /\ loader' = IF pc = "validate" THEN "val" ELSE "test"
    /\ mode' = "eval"
    /\ grad_enabled' = FALSE
    /\ order' \in Shuffles(Partition(loader'))
    /\ pos' = 0
    /\ batch' = 0
    /\ seen' = <<>>
    /\ events' = Append(events, <<"start", loader', t>>)
    /\ pc' = "e_next"
    /\ stdout' = IF pc = "cell5"
                 THEN Append(stdout, Line("Training complete! Computing test error...", <<>>))
                 ELSE stdout
    /\ UNCHANGED <<N, batch_size, train_dataset, val_dataset, status, t, X, pred,
                   loss, grad, params, test_loss, correct, ret, writer, evals,
                   n_updates, n_raised,
                   model_file>>

test_begin ==
    /\ pc \in {"validate", "cell5"} /\ status = "running"
    /\ loader' = IF pc = "validate" THEN "val" ELSE "test"
    /\ mode' = "eval"
    /\ test_loss' = 0
    /\ correct' = 0
    /\ grad_enabled' = FALSE
    /\ order' \in Shuffles(Partition(loader'))
    /\ pos' = 0
    /\ batch' = 0
    /\ seen' = <<>>
    /\ events' = Append(events, <<"start", loader', t>>)
    /\ pc' = "e_next"
    /\ stdout' = IF pc = "cell5"
                 THEN Append(stdout, Line("Training complete! Computing test error...", <<>>))
                 ELSE stdout
    /\ UNCHANGED <<N, batch_size, train_dataset, val_dataset, status, t, X, pred,
                   loss, grad, params, ret, writer, evals, n_updates, n_raised,
                   model_file>>

\* for batch, (X, y) in enumerate(dataloader): the next batch
test_next_batch ==
    /\ pc = "e_next" /\ status = "running"
    /\ HasNext(order, pos, batch_size)
    /\ X' = NextBatch(order, pos, batch_size)
    /\ pos' = pos + Len(X')
    /\ batch' = Len(seen)
    /\ seen' = Append(seen, X')
    /\ pc' = "e_fwd"
    /\ UNCHANGED <<N, batch_size, train_dataset, val_dataset, status, t, loader,
                   order, pred, loss, grad, params, mode, grad_enabled,
                   test_loss, correct, ret, writer, events, evals, n_updates,
                   n_raised,
                   stdout, model_file>>

\* X, y = X.to(device), y.to(device); pred = model(X)
test_forward ==
    /\ pc = "e_fwd" /\ status = "running"
    /\ pred' = Forward(params, X)
    /\ pc' = "e_acc"
    /\ UNCHANGED <<N, batch_size, train_dataset, val_dataset, status, t, loader,
                   order, pos, batch, X, loss, grad, params, mode, grad_enabled,
                   test_loss, correct, ret, writer, seen, events, evals,
                   n_updates, n_raised,
                   stdout, model_file>>

\* test_loss += loss_fn(pred, y).item(); correct += (pred.argmax(1) == y)...sum().item()
test_accumulate_updating ==
    /\ pc = "e_acc" /\ status = "running"
    /\ test_loss' = test_loss + loss_fn(pred, Labels(loader, X))
    /\ correct' = correct + Hits(pred, Labels(loader, X))
    /\ params' = SgdStep(params, 1 + Gradient(pred, Labels(loader, X)))
    /\ pc' = "e_next"
    /\ UNCHANGED <<N, batch_size, train_dataset, val_dataset, status, t, loader,
                   order, pos, batch, X, pred, loss, grad, mode,
                   grad_enabled, ret, writer, seen, events, evals, n_updates,
                   n_raised,
                   stdout, model_file>>

test_accumulate ==
    /\ pc = "e_acc" /\ status = "running"
    /\ test_loss' = test_loss + loss_fn(pred, Labels(loader, X))
    /\ correct' = correct + Hits(pred, Labels(loader, X))
    /\ pc' = "e_next"
    /\ UNCHANGED <<N, batch_size, train_dataset, val_dataset, status, t, loader,
                   order, pos, batch, X, pred, loss, grad, params, mode,
                   grad_enabled, ret, writer, seen, events, evals, n_updates,
                   n_raised,
                   stdout, model_file>>

\* test_loss /= num_batches; correct /= size; return test_loss, 100*correct
TestResultPerSample(sum, hits, num_batches, size) ==
    <<Rat(sum, size), Rat(100 * hits, size)>>

TestResult(sum, hits, num_batches, size) ==
    <<Rat(sum, num_batches), Rat(100 * hits, size)>>

\* the iterator is exhausted: no_grad() is left and test() returns. In the
\* loop the validation loss is logged next; the last cell drops the value
\* (only the last expression of a cell is displayed) and prints "Done!"
test_return ==
    /\ pc = "e_next" /\ status = "running"
    /\ ~HasNext(order, pos, batch_size)
    /\ NumBatches(loader, batch_size) > 0
    /\ Len(Partition(loader)) > 0
    /\ ret' = TestResult(test_loss, correct, NumBatches(loader, batch_size),
                         Len(Partition(loader)))
    /\ grad_enabled' = TRUE
    /\ events' = Append(events, <<"end", loader, t>>)
    /\ evals' = Append(evals, [which |-> loader, params |-> params,
                               batches |-> seen, ret |-> ret'])
    /\ IF loader = "val"
       THEN /\ writer' = add_scalar(writer, "validation/loss", ret'[1], t)
            /\ pc' = "log_acc"
            /\ status' = status
            /\ stdout' = stdout
       ELSE /\ writer' = writer
            /\ pc' = "done"
            /\ status' = "done"
            /\ stdout' = Append(stdout, Line("Done!", <<>>))
    /\ UNCHANGED <<N, batch_size, train_dataset, val_dataset, t, loader, order,
                   pos, batch, X, pred, loss, grad, params, mode, test_loss,
                   correct, seen, n_updates, n_raised,
                   model_file>>

\* writer.add_scalar("validation/accuracy", accuracy_validation, t), and the
\* for loop moves to the next epoch
log_accuracy ==
    /\ pc = "log_acc" /\ status = "running"
    /\ writer' = add_scalar(writer, "validation/accuracy", ret[2], t)
    /\ t' = t + 1
    /\ pc' = "loop"
    /\ stdout' = Append(stdout, Line("-------------------------------", <<>>))
    /\ UNCHANGED <<N, batch_size, train_dataset, val_dataset, status, loader,
                   order, pos, batch, X, pred, loss, grad, params, mode,
                   grad_enabled, test_loss, correct, ret, seen, events, evals,
                   n_updates, n_raised,
                   model_file>>

\* range(epochs) is exhausted: writer.flush(), writer.close(); the last cell
\* runs next
loop_exit ==
    /\ pc = "loop" /\ status = "running"
    /\ t >= epochs
    /\ pc' = "cell5"
    /\ UNCHANGED <<N, batch_size, train_dataset, val_dataset, status, t, loader,
                   order, pos, batch, X, pred, loss, grad, params, mode,
                   grad_enabled, test_loss, correct, ret, writer, seen, events,
                   evals, n_updates, n_raised,
                   stdout, model_file>>

\* ------------------------------------------------------------- exceptions
\* the steps that run library computation on a batch: fetching (decoding)
\* the next batch, the forward pass, the loss, the backward pass; and the
\* division by num_batches of an empty loader
CanRaise ==
    \/ pc \in {"t_next", "e_next"} /\ HasNext(order, pos, batch_size)
    \/ pc \in {"t_fwd", "t_loss", "t_bwd", "e_fwd", "e_acc"}
    \/ pc = "e_next" /\ ~HasNext(order, pos, batch_size)
                     /\ NumBatches(loader, batch_size) = 0

\* (the failing batch is dropped and the pass goes on with the next one)
RaiseSkipsBatch ==
    /\ status = "running"
    /\ CanRaise
    /\ n_raised' = n_raised + 1
    /\ pos' = IF pc \in {"t_next", "e_next"}
              THEN Min(pos + batch_size, Len(order)) ELSE pos
    /\ pc' = IF loader = "train" THEN "t_next" ELSE "e_next"
    /\ UNCHANGED <<N, batch_size, train_dataset, val_dataset, status, t, loader,
                   order, batch, X, pred, loss, grad, params, mode,
                   grad_enabled, test_loss, correct, ret, writer, seen, events,
                   evals, n_updates,
                   stdout, model_file>>

\* train(), test() and the loop hold no try/except: the exception leaves
\* them (and no_grad()) and ends the cell
Raise ==
    /\ status = "running"
    /\ CanRaise
    /\ status' = "raised"
    /\ n_raised' = n_raised + 1
    /\ grad_enabled' = TRUE
    /\ UNCHANGED <<N, batch_size, train_dataset, val_dataset, pc, t, loader,
                   order, pos, batch, X, pred, loss, grad, params, mode,
                   test_loss, correct, ret, writer, seen, events, evals,
                   n_updates,
                   stdout, model_file>>

\* manual cancellation (KeyboardInterrupt) can arrive at any point of the
\* run: like any exception it leaves the running call (and no_grad()) and
\* ends the cell; nothing is checkpointed
Cancel ==
    /\ status = "running"
    /\ status' = "cancelled"
    /\ grad_enabled' = TRUE
    /\ UNCHANGED <<N, batch_size, train_dataset, val_dataset, pc, t, loader,
                   order, pos, batch, X, pred, loss, grad, params, mode,
                   test_loss, correct, ret, writer, seen, events, evals,
                   n_updates, n_raised, stdout, model_file>>

Next ==
    \/ random_split
    \/ CreateLoaders
    \/ CreateLoadersRaises
    \/ train_begin
    \/ train_next_batch
    \/ train_forward
    \/ train_loss
    \/ train_backward
    \/ train_step
    \/ train_zero_grad
    \/ train_return
    \/ test_begin
    \/ test_next_batch
    \/ test_forward
    \/ test_accumulate
    \/ test_return
    \/ log_accuracy
    \/ loop_exit
    \/ Raise
    \/ Cancel

Spec == Init /\ [][Next]_vars

\* ------------------------------------------- long training passes (SpecLong)
\* One training pass of about LogEvery batches, so that train()'s .item()
\* conversion is reached. The run is taken up at the loop's first epoch,
\* after a split that kept the collection's order; of the sampler's
\* permutations two are followed.
Reverse(p) == [i \in 1..Len(p) |-> p[Len(p) + 1 - i]]

SampleShuffles(p) == {p, Reverse(p)}

InitLong ==
    /\ N \in (LongN - 2)..LongN
    /\ batch_size \in 1..MaxBatch
    /\ params \in InitParams
    /\ train_dataset = Split([i \in 1..N |-> i - 1], train_size(N), val_size(N))[1]
    /\ val_dataset = Split([i \in 1..N |-> i - 1], train_size(N), val_size(N))[2]
    /\ pc = "loop"
    /\ status = "running"
    /\ t = 0
    /\ loader = "none"
    /\ order = <<>>
    /\ pos = 0
    /\ batch = 0
    /\ X = <<>>
    /\ pred = <<>>
    /\ loss = IntVal(0)
    /\ grad = 0
    /\ mode = "train"
    /\ grad_enabled = TRUE
    /\ test_loss = 0
    /\ correct = 0
    /\ ret = <<>>
    /\ writer = [tag \in {"train/loss", "validation/loss", "validation/accuracy"} |-> <<>>]
    /\ seen = <<>>
    /\ events = <<>>
    /\ evals = <<>>
    /\ n_updates = 0
    /\ n_raised = 0
    /\ stdout = <<Line("Using device", <<>>)>>
    /\ model_file = "absent"

\* train()'s entry, as train_begin, with the permutation taken from the two
train_begin_sampled ==
    /\ pc = "loop" /\ status = "running"
    /\ t < epochs
    /\ loader' = "train"
    /\ loss' = IntVal(0)
    /\ mode' = "train"
    /\ order' \in SampleShuffles(train_dataset)
    /\ pos' = 0
    /\ batch' = 0
    /\ seen' = <<>>
    /\ events' = Append(events, <<"start", "train", t>>)
    /\ pc' = "t_next"
    /\ stdout' = Append(stdout, Line("Epoch", <<Rat(t + 1, 1)>>))
    /\ UNCHANGED <<N, batch_size, train_dataset, val_dataset, status, t, X, pred,
                   grad, params, grad_enabled, test_loss, correct, ret, writer,
                   evals, n_updates, n_raised, model_file>>

NextLong ==
    \/ train_begin_sampled
    \/ train_next_batch
    \/ train_forward
    \/ train_loss
    \/ train_backward
    \/ train_step
    \/ train_zero_grad
    \/ train_return

SpecLong == InitLong /\ [][NextLong]_vars

\* =================================================================== claims
\* helpers of the statements below
Last(s) == s[Len(s)]

IsPrefix(a, b) == Len(a) <= Len(b) /\ SubSeq(b, 1, Len(a)) = a

RECURSIVE SumLens(_)
SumLens(ss) == IF ss = <<>> THEN 0 ELSE Len(Head(ss)) + SumLens(Tail(ss))

\* how often sample x occurs in the batches ss
Occurrences(ss, x) ==
    Cardinality({k \in 1..Len(Flatten(ss)) : Flatten(ss)[k] = x})

\* a pass has just ended: its batches are still in seen
PassEnded == events # <<>> /\ Last(events)[1] = "end"

\* k is the ceiling of n / b
IsCeilDiv(k, n, b) == k * b >= n /\ (k = 0 \/ (k - 1) * b < n)

\* ---------------------------------------------------------------------- C1
\* C1: once the split is made, every index 0..N-1 of the source collection
\* is in exactly one of the two partitions: the train and validation index
\* sets are disjoint, their union is 0..N-1, no index is listed twice, and
\* |train| + |validation| = N.
C1_SplitIsPartition ==
    pc # "split" =>
        /\ Range(train_dataset) \cap Range(val_dataset) = {}
        /\ Range(train_dataset) \cup Range(val_dataset) = 0..(N - 1)
        /\ Cardinality(Range(train_dataset)) = Len(train_dataset)
        /\ Cardinality(Range(val_dataset)) = Len(val_dataset)
        /\ Len(train_dataset) + Len(val_dataset) = N

\* the split of a collection of MaxN samples into two non-empty partitions
C1_Witness ==
    /\ pc = "loaders"
    /\ N = MaxN
    /\ Len(train_dataset) >= 2
    /\ Len(val_dataset) >= 1

\* ---------------------------------------------------------------------- C2
\* C2: the training partition has exactly floor(0.8 * N) items, that is the
\* largest k with 5k <= 4N, and the validation partition the remaining
\* N - k; a collection of 1600 gives 1280 and 320.
C2_SplitSizes ==
    /\ pc # "split" =>
          /\ 5 * Len(train_dataset) <= 4 * N
          /\ 4 * N < 5 * (Len(train_dataset) + 1)
          /\ Len(val_dataset) = N - Len(train_dataset)
    /\ train_size(1600) = 1280
    /\ val_size(1600) = 320

\* a split where 0.8 * N is not an integer and is truncated
C2_Witness ==
    /\ pc = "loop"
    /\ (4 * N) % 5 # 0
    /\ Len(train_dataset) = 1
    /\ Len(val_dataset) = 1

\* ---------------------------------------------------------------------- C3
\* C3: a pass of the batch producer over a partition P with batch size B
\* yields exactly ceil(|P| / B) batches, and the batches' sample counts sum
\* to |P| (1280 samples at B = 64: 20 batches; 320 samples: 5).
C3_BatchCount ==
    /\ PassEnded =>
          /\ IsCeilDiv(Len(seen), Len(Partition(loader)), batch_size)
          /\ SumLens(seen) = Len(Partition(loader))
    /\ IsCeilDiv(CeilDiv(1280, 64), 1280, 64) /\ CeilDiv(1280, 64) = 20
    /\ IsCeilDiv(CeilDiv(320, 64), 320, 64) /\ CeilDiv(320, 64) = 5

\* a finished training pass of several batches
C3_Witness ==
    /\ PassEnded
    /\ loader = "train"
    /\ Len(seen) >= 2
    /\ Len(seen) = NumBatches("train", batch_size)

\* ---------------------------------------------------------------------- C4
\* C4: in a pass no sample is handed out twice, every batch has between 1
\* and B samples, every batch but the last one exactly B, and when the pass
\* ends every sample of the partition has been handed out exactly once,
\* also when |partition| is not a multiple of B.
C4_EachSampleOnce ==
    loader \in {"train", "val", "test"} =>
        /\ \A x \in Range(Partition(loader)) : Occurrences(seen, x) <= 1
        /\ \A i \in 1..Len(seen) :
              /\ Len(seen[i]) >= 1
              /\ Len(seen[i]) <= batch_size
              /\ i < Len(seen) => Len(seen[i]) = batch_size
              /\ Range(seen[i]) \subseteq Range(Partition(loader))
        /\ PassEnded =>
              \A x \in Range(Partition(loader)) : Occurrences(seen, x) = 1

\* a finished pass over a partition whose size is no multiple of B: the
\* last batch is short
C4_Witness ==
    /\ PassEnded
    /\ Len(Partition(loader)) % batch_size # 0
    /\ Len(seen) >= 2
    /\ Len(Last(seen)) < batch_size

\* ---------------------------------------------------------------------- C5
\* the pass starts and ends of a complete run, in order
ExpectedEvents ==
    Flatten([e \in 1..epochs |->
               << <<"start", "train", e - 1>>, <<"end", "train", e - 1>>,
                  <<"start", "val", e - 1>>, <<"end", "val", e - 1>> >>])
    \o << <<"start", "test", epochs>>, <<"end", "test", epochs>> >>

\* C5: the run executes, for t = 0..epochs-1 in order, one complete training
\* pass followed by one complete validation pass, and then exactly one test
\* pass: the passes start and end in exactly that order (no pass starts
\* before the one before it ended), every pass that ends has handed out its
\* whole partition, batches are only processed inside the pass that was
\* started last, and a run that finishes has made all of them.
C5_PassOrder ==
    /\ IsPrefix(events, ExpectedEvents)
    /\ PassEnded => SumLens(seen) = Len(Partition(loader))
    /\ pc \in {"t_next", "t_fwd", "t_loss", "t_bwd", "t_step", "t_zero"} =>
          events # <<>> /\ Last(events) = <<"start", "train", t>>
    /\ pc \in {"e_next", "e_fwd", "e_acc"} =>
          events # <<>> /\ Last(events) = <<"start", loader, t>>
                        /\ loader = (IF t < epochs THEN "val" ELSE "test")
    /\ status = "done" => events = ExpectedEvents

\* a finished run: all epochs and the test pass
C5_Witness ==
    /\ status = "done"
    /\ Len(events) = 4 * epochs + 2
    /\ Len(train_dataset) >= 2

\* ---------------------------------------------------------------------- C6
\* C6: no step of an evaluation pass (test() on the validation or the test
\* partition, from its entry to its return and the logging of its result)
\* changes the model parameters, the gradient buffer or the number of
\* optimizer steps taken.
C6_EvalKeepsParams ==
    [][loader' \in {"val", "test"} =>
          /\ params' = params
          /\ grad' = grad
          /\ n_updates' = n_updates]_vars

\* an evaluation pass that processed a batch of a model that training had
\* updated before
C6_Witness ==
    /\ evals # <<>>
    /\ Last(evals).batches # <<>>
    /\ n_updates > 0
    /\ Last(evals).params \notin InitParams

\* ---------------------------------------------------------------------- C7
\* the per-batch loss values of a pass, summed
RECURSIVE SumLoss(_, _, _)
SumLoss(bs, p, l) ==
    IF bs = <<>> THEN 0
    ELSE loss_fn(Forward(p, Head(bs)), Labels(l, Head(bs))) + SumLoss(Tail(bs), p, l)

\* the samples of a pass whose predicted class equals the label
CountCorrect(bs, p, l) ==
    Cardinality({k \in 1..Len(Flatten(bs)) :
                    Predict(p, Flatten(bs)[k]) = Label(SourceLen(l), Flatten(bs)[k])})

\* C7: every test() call over a non-empty partition returns
\* mean loss = (sum of the per-batch losses) / (number of batches of the pass)
\* and accuracy = 100 * (samples predicted correctly) / (samples of the
\* partition): the loss is divided by the batch count, not the sample count.
C7_TestResult ==
    \A i \in 1..Len(evals) :
        LET r == evals[i] IN
        Len(Partition(r.which)) > 0 =>
            /\ r.ret[1][2] # 0
            /\ r.ret[2][2] # 0
            /\ RatEq(r.ret[1], <<SumLoss(r.batches, r.params, r.which), Len(r.batches)>>)
            /\ RatEq(r.ret[2], <<100 * CountCorrect(r.batches, r.params, r.which),
                                 Len(Partition(r.which))>>)

\* a test() call whose pass had fewer batches than samples, with right and
\* wrong predictions
C7_Witness ==
    \E i \in 1..Len(evals) :
        /\ Len(evals[i].batches) >= 2
        /\ Len(evals[i].batches) < Len(Partition(evals[i].which))
        /\ evals[i].ret[2][1] > 0
        /\ evals[i].ret[2][1] < 100 * evals[i].ret[2][2]

\* ---------------------------------------------------------------------- C8
\* C8: every test() call starts with both accumulators at 0, and two calls
\* on the same partition with the same parameters and the same batches in
\* the same order return the same loss and accuracy: nothing is carried over
\* from an earlier pass or epoch.
C8_EvalIdempotent ==
    /\ (pc = "e_next" /\ seen = <<>>) => (test_loss = 0 /\ correct = 0)
    /\ \A i, j \in 1..Len(evals) :
          (/\ evals[i].which = evals[j].which
           /\ evals[i].params = evals[j].params
           /\ evals[i].batches = evals[j].batches)
          => evals[i].ret = evals[j].ret

\* two completed test() calls on the same partition, parameters and order
C8_Witness ==
    \E i, j \in 1..Len(evals) :
        /\ i < j
        /\ evals[i].which = evals[j].which
        /\ evals[i].params = evals[j].params
        /\ evals[i].batches = evals[j].batches
        /\ evals[i].batches # <<>>

\* ---------------------------------------------------------------------- C9
\* what the writer holds when an exception ended the run in epoch t
NothingLoggedForFailingPass ==
    /\ loader = "train" => Len(writer["train/loss"]) = t
    /\ loader = "val" => /\ Len(writer["validation/loss"]) = t
                         /\ Len(writer["validation/accuracy"]) = t
    /\ Len(writer["train/loss"]) <= t + 1
    /\ Len(writer["validation/loss"]) <= t
    /\ Len(writer["validation/accuracy"]) <= t

\* C9: an exception raised by a batch's fetch (decode), forward pass, loss or
\* backward pass ends the run: once one has been raised the run is in its
\* final state (no further step: the batch is not retried or skipped, no
\* later batch or epoch is processed), and no metric of the failing pass has
\* been logged.
C9_ErrorEndsRun ==
    /\ [](n_raised > 0 => (status = "raised" /\ n_raised = 1
                           /\ NothingLoggedForFailingPass))
    /\ [][n_raised = 0]_vars

\* an exception in the backward pass of the second epoch's training pass,
\* with batches of that pass still to come
C9_Witness ==
    /\ status = "raised"
    /\ pc = "t_bwd"
    /\ t = 1
    /\ HasNext(order, pos, batch_size)

\* --------------------------------------------------------------------- C10
Tags == {"train/loss", "validation/loss", "validation/accuracy"}

\* C10: every series holds its entries at steps 0, 1, 2, ... in order; after
\* k completed epochs (the loop is between epochs, t = k) each of the three
\* series holds exactly k entries; inside epoch t the training series holds
\* t or t + 1 and the validation series t (the loss possibly one more while
\* the accuracy is being logged); and a step of the run only ever appends to
\* a series, at most one entry: nothing is overwritten or removed.
C10_SeriesPerEpoch ==
    /\ [](/\ \A tag \in Tags : \A i \in 1..Len(writer[tag]) :
                 writer[tag][i].step = i - 1
          /\ pc \in {"loop", "cell5", "done"} =>
                 \A tag \in Tags : Len(writer[tag]) = t
          /\ Len(writer["validation/accuracy"]) = Min(t, epochs)
          /\ Len(writer["validation/loss"]) \in {t, t + 1}
          /\ Len(writer["train/loss"]) \in {t, t + 1}
          /\ t <= epochs)
    /\ [][\A tag \in Tags :
             /\ IsPrefix(writer[tag], writer'[tag])
             /\ Len(writer'[tag]) <= Len(writer[tag]) + 1]_vars

\* all epochs completed: each series holds one entry per epoch
C10_Witness ==
    /\ pc = "cell5"
    /\ t = epochs
    /\ \A tag \in Tags : Len(writer[tag]) = epochs

\* --------------------------------------------------------------------- C11
\* the loss of the batch train() processed last, from the predictions it
\* still holds (0 when the pass had no batch)
LastBatchLoss ==
    IF seen = <<>> THEN 0 ELSE loss_fn(pred, Labels("train", Last(seen)))

\* C11: between batches and at its return train()'s loss holds the loss of
\* the batch processed last (pred being the network's output for that batch
\* under the parameters it had before that batch's update), and the entry
\* the loop logs as train/loss for epoch t is that value: also after the
\* .item() conversion at batch indices that are positive multiples of
\* LogEvery, whether such a batch is the last one or is followed by more.
C11_TrainLossIsLastBatch ==
    /\ (pc \in {"t_next", "validate"} /\ loader = "train") =>
          /\ loss.v = LastBatchLoss
          /\ seen # <<>> =>
                /\ X = Last(seen)
                /\ pred = Forward(params - Gradient(pred, Labels("train", X)), X)
    /\ pc = "validate" =>
          /\ writer["train/loss"] # <<>>
          /\ Last(writer["train/loss"]).step = t
          /\ Last(writer["train/loss"]).value = loss
          /\ Last(writer["train/loss"]).value.v = LastBatchLoss

\* a pass of LogEvery + 1 batches has returned: its last batch, index
\* LogEvery, went through the conversion
C11_Witness ==
    /\ pc = "validate"
    /\ Len(seen) = LogEvery + 1
    /\ loss.kind = "float"
    /\ Last(writer["train/loss"]).value.v = LastBatchLoss

\* --------------------------------------------------------------------- C12
\* the lines printed from the last cell's first print on
LastCellOutput ==
    {i \in 1..Len(stdout) :
        \E k \in 1..i : stdout[k].text = "Training complete! Computing test error..."}

\* C12 (as claimed): when the run is complete, the loss and the accuracy the
\* test pass computed have been emitted: they are in a line the last cell
\* printed, or the writer holds an entry logged after the loop's epochs.
C12_TestResultReported ==
    status = "done" =>
        \/ \E i \in LastCellOutput :
              /\ ret[1] \in Range(stdout[i].vals)
              /\ ret[2] \in Range(stdout[i].vals)
        \/ \E tag \in Tags : Len(writer[tag]) > epochs

\* --------------------------------------------------------------------- C13
\* C13 (as claimed): a run that completed all epochs and the final
\* evaluation has serialized the trained parameters to a file: the weights
\* file exists and holds the parameters the run ended with.
C13_WeightsSaved ==
    status = "done" => (model_file # "absent" /\ model_file = params)

\* --------------------------------------------------------------------- C16
\* batches of one training pass
TrainBatches == CeilDiv(Len(train_dataset), batch_size)

\* optimizer steps taken when control is at pc: those of the passes that
\* ended, plus those of the batches of the current pass already stepped
UpdatesDue ==
    CASE pc \in {"split", "loaders", "loop", "cell5", "done"} -> t * TrainBatches
      [] pc \in {"validate", "log_acc"} -> (t + 1) * TrainBatches
      [] pc \in {"e_next", "e_fwd", "e_acc"} ->
            IF loader = "val" THEN (t + 1) * TrainBatches ELSE t * TrainBatches
      [] pc \in {"t_next", "t_zero"} -> t * TrainBatches + Len(seen)
      [] OTHER -> t * TrainBatches + Len(seen) - 1

\* C16: in a training pass every batch goes through forward pass, loss,
\* backward pass, optimizer step and gradient clear, in that order and once:
\* the number of optimizer steps taken is always the number of batches
\* handled so far (e * ceil(|train| / B) after e full epochs), the gradient
\* buffer is clear from the fetch of a batch until its backward pass, the
\* optimizer step uses the gradient of the current batch alone, computed
\* from the parameters it is about to update, and the parameters change in
\* no other step.
C16_OneUpdatePerBatch ==
    /\ [](/\ n_updates = UpdatesDue
          /\ pc \in {"t_next", "t_fwd", "t_loss", "t_bwd"} => grad = 0
          /\ pc = "t_step" =>
                /\ X = Last(seen)
                /\ pred = Forward(params, X)
                /\ grad = Gradient(pred, Labels("train", X)))
    /\ [][/\ pc = "t_fwd" => pc' \in {"t_fwd", "t_loss"}
          /\ pc = "t_loss" => pc' \in {"t_loss", "t_bwd"}
          /\ pc = "t_bwd" => pc' \in {"t_bwd", "t_step"}
          /\ pc = "t_step" => pc' \in {"t_step", "t_zero"}
          /\ pc = "t_zero" => pc' \in {"t_zero", "t_next"}
          /\ (pc = "t_step" /\ pc' = "t_zero") =>
                (params' = SgdStep(params, grad) /\ n_updates' = n_updates + 1)
          /\ (params' # params \/ n_updates' # n_updates) =>
                (pc = "t_step" /\ pc' = "t_zero")]_vars

\* the optimizer step of the second batch of the second epoch, with a
\* gradient that is not zero
C16_Witness ==
    /\ pc = "t_step"
    /\ status = "running"
    /\ t = 1
    /\ Len(seen) = 2
    /\ grad > 0
    /\ n_updates = TrainBatches + 1

\* --------------------------------------------------------------------- C17
\* C17: while control is in a training pass (so at every optimizer step) the
\* model is in training mode, and while it is in an evaluation pass (so at
\* every forward pass of test()) the model is in evaluation mode and, as
\* long as the pass runs, gradient tracking is off; this holds in every
\* epoch, so a training pass that follows a validation pass is in training
\* mode again.
C17_ModeMatchesPass ==
    /\ pc \in {"t_next", "t_fwd", "t_loss", "t_bwd", "t_step", "t_zero"} =>
          mode = "train"
    /\ pc \in {"e_next", "e_fwd", "e_acc"} =>
          /\ mode = "eval"
          /\ status = "running" => ~grad_enabled

\* an optimizer step about to be taken in the second epoch, after a
\* validation pass had put the model in evaluation mode
C17_Witness ==
    /\ pc = "t_step"
    /\ status = "running"
    /\ t = 1
    /\ Len(evals) = 1
    /\ mode = "train"

\* --------------------------------------------------------------------- C18
\* C18: at every point of the run, also after a cancellation or an exception
\* at any step, the series are consistent prefixes: validation/loss and
\* validation/accuracy never hold more entries than train/loss, train/loss
\* at most one more than validation/loss, validation/loss at most one more
\* than validation/accuracy; and a run interrupted inside a pass of epoch t
\* holds no entry of that pass (the series of the pass holds the t entries
\* of the epochs before).
C18_ConsistentPrefixes ==
    LET LT == Len(writer["train/loss"])
        LV == Len(writer["validation/loss"])
        LA == Len(writer["validation/accuracy"])
    IN  /\ LV <= LT
        /\ LA <= LT
        /\ LT <= LV + 1
        /\ LA <= LV
        /\ LV <= LA + 1
        /\ pc \in {"t_next", "t_fwd", "t_loss", "t_bwd", "t_step", "t_zero"} =>
              LT = t
        /\ (pc \in {"e_next", "e_fwd", "e_acc"} /\ loader = "val") =>
              (LV = t /\ LA = t)

\* a run cancelled in its second epoch between the logging of the validation
\* loss and that of the accuracy
C18_Witness ==
    /\ status = "cancelled"
    /\ pc = "log_acc"
    /\ t = 1
    /\ Len(writer["train/loss"]) = 2
    /\ Len(writer["validation/loss"]) = 2
    /\ Len(writer["validation/accuracy"]) = 1

====
